---------------------------- MODULE Spec2Model ----------------------------
(***************************************************************************)
(* DataGraph MCP server: the tool / prompt / resource dispatcher.          *)
(*                                                                         *)
(* The repository holds four builds of the server:                         *)
(*   "v13"  src/unnamed/part_001        (1.3.0, locality based, prompts    *)
(*                                       and resources)                    *)
(*   "v11"  src/index.js lines 1-338    (city based, with list_cities)     *)
(*   "v12"  src/index.js lines 341-680  (city based, list_cities removed)  *)
(*   "v10"  src/index.js lines 682-943  (1.0.0, X-API-Key)                 *)
(* The variable `variant` says which build is running.                     *)
(***************************************************************************)
EXTENDS Integers, Sequences, FiniteSets, TLC

(***************************************************************************)
(* JavaScript / JSON values.  Every value is a record tagged by t, with    *)
(* its payload under a field named after the tag.                          *)
(***************************************************************************)
Undefined == [t |-> "undefined"]
JNull == [t |-> "null"]
JStr(s) == [t |-> "str", s |-> s]
JNum(n) == [t |-> "num", n |-> n]
JArr(a) == [t |-> "arr", a |-> a]
\* an object is the sequence of its <<key, value>> properties, in insertion order
JObj(o) == [t |-> "obj", o |-> o]

\* JavaScript truthiness, as used by `if (!locality)` and `a || b`
Truthy(v) ==
    CASE v.t = "undefined" -> FALSE
      [] v.t = "null" -> FALSE
      [] v.t = "str" -> v.s # ""
      [] v.t = "num" -> v.n # 0
      [] OTHER -> TRUE

\* property read v.k (Undefined when v has no own property k)
Get(v, k) ==
    IF v.t = "obj" /\ \E i \in 1..Len(v.o) : v.o[i][1] = k
    THEN v.o[CHOOSE i \in 1..Len(v.o) : v.o[i][1] = k][2]
    ELSE Undefined

\* `const { k } = args` and `x.k` throw a TypeError on undefined and null
CanReadProperty(v) == v.t \notin {"undefined", "null"}

\* destructuring without the default: `k` in place of `k = d`
DefaultToDropped(v, d) == v

\* destructuring default `k = d`: the default applies to undefined only
DefaultTo(v, d) == IF v = Undefined THEN d ELSE v

RECURSIVE JoinStrings(_, _)
JoinStrings(ss, sep) ==
    IF Len(ss) = 0 THEN ""
    ELSE IF Len(ss) = 1 THEN ss[1]
    ELSE ss[1] \o sep \o JoinStrings(Tail(ss), sep)

\* String(v), as applied by template literals and by new Error(v)
RECURSIVE JsString(_)
JsString(v) ==
    CASE v.t = "undefined" -> "undefined"
      [] v.t = "null" -> "null"
      [] v.t = "str" -> v.s
      [] v.t = "num" -> ToString(v.n)
      [] v.t = "arr" -> JoinStrings([i \in 1..Len(v.a) |->
                            IF v.a[i].t \in {"undefined", "null"} THEN ""
                            ELSE JsString(v.a[i])], ",")
      [] OTHER -> "[object Object]"

\* the properties JSON.stringify writes: undefined-valued ones are dropped
Written(o) == SelectSeq(o, LAMBDA p : p[2].t # "undefined")

\* JSON.stringify(v, null, 2); ind is the indentation of the enclosing line
RECURSIVE StringifyPretty(_, _)
StringifyPretty(v, ind) ==
    CASE v.t = "null" -> "null"
      [] v.t = "undefined" -> "null"
      [] v.t = "num" -> ToString(v.n)
      [] v.t = "str" -> "\"" \o v.s \o "\""
      [] v.t = "arr" ->
           IF Len(v.a) = 0 THEN "[]"
           ELSE "[\n"
                \o JoinStrings([i \in 1..Len(v.a) |->
                      ind \o "  " \o StringifyPretty(v.a[i], ind \o "  ")], ",\n")
                \o "\n" \o ind \o "]"
      [] OTHER ->
           LET ps == Written(v.o) IN
           IF Len(ps) = 0 THEN "{}"
           ELSE "{\n"
                \o JoinStrings([i \in 1..Len(ps) |->
                      ind \o "  \"" \o ps[i][1] \o "\": "
                          \o StringifyPretty(ps[i][2], ind \o "  ")], ",\n")
                \o "\n" \o ind \o "}"

\* JSON.stringify(v): the compact form, used for the POST body and on the wire
RECURSIVE Stringify(_)
Stringify(v) ==
    CASE v.t = "null" -> "null"
      [] v.t = "undefined" -> "null"
      [] v.t = "num" -> ToString(v.n)
      [] v.t = "str" -> "\"" \o v.s \o "\""
      [] v.t = "arr" ->
           "[" \o JoinStrings([i \in 1..Len(v.a) |-> Stringify(v.a[i])], ",") \o "]"
      [] OTHER ->
           LET ps == Written(v.o) IN
           "{" \o JoinStrings([i \in 1..Len(ps) |->
                     "\"" \o ps[i][1] \o "\":" \o Stringify(ps[i][2])], ",") \o "}"

(***************************************************************************)
(* The builds and their static registries.                                 *)
(***************************************************************************)
Variants == {"v13", "v11", "v12", "v10"}

\* const TOOLS = [...]: name, the properties of inputSchema, and its `required`
Tool(name, properties, required) ==
    [name |-> name, properties |-> properties, required |-> required]

TOOLS(v) ==
    CASE v = "v13" ->
           << Tool("get_server_info", <<>>, <<>>),
              Tool("get_locality_schema", <<"locality">>, <<"locality">>),
              Tool("query_locality_data",
                   <<"query", "locality", "cypher_query", "cypher_params", "limit">>,
                   <<"query">>),
              Tool("list_datasets", <<"locality">>, <<>>),
              Tool("get_usage_stats", <<>>, <<>>) >>
      [] v = "v11" ->
           << Tool("get_city_schema", <<"city">>, <<>>),
              Tool("query_city_data",
                   <<"query", "city", "cypher_query", "cypher_params", "limit">>,
                   <<"query">>),
              Tool("list_cities", <<>>, <<>>),
              Tool("list_datasets", <<"city">>, <<>>),
              Tool("get_usage_stats", <<>>, <<>>) >>
      [] v = "v12" ->
           << Tool("get_city_schema", <<"city">>, <<>>),
              Tool("query_city_data",
                   <<"query", "city", "cypher_query", "cypher_params", "limit">>,
                   <<"query">>),
              Tool("list_datasets", <<"city">>, <<>>),
              Tool("get_usage_stats", <<>>, <<>>) >>
      [] OTHER ->
           << Tool("query_city_data",
                   <<"query", "city", "category", "limit", "cypher_query", "cypher_params">>,
                   <<"query">>),
              Tool("get_city_schema", <<"city">>, <<>>),
              Tool("list_cities", <<>>, <<>>),
              Tool("get_usage_stats", <<>>, <<>>) >>

\* const PROMPTS = [...]: name and arguments (name, required)
PromptArg(name, required) == [name |-> name, required |-> required]

PROMPTS ==
    << [name |-> "explore_locality_data",
        arguments |-> << PromptArg("locality", TRUE) >>],
       [name |-> "analyze_gosr_dataset",
        arguments |-> << PromptArg("dataset", TRUE), PromptArg("focus", FALSE) >>],
       [name |-> "cypher_query_builder",
        arguments |-> << PromptArg("locality", TRUE), PromptArg("user_question", TRUE) >>] >>

\* const RESOURCES = [...]
Resource(uri, name) == [uri |-> uri, name |-> name, mimeType |-> "application/json"]

RESOURCES ==
    << Resource("datagraph://cities/list", "Available Cities"),
       Resource("datagraph://datasets/gosr", "GOSR Datasets"),
       Resource("datagraph://schema/nyc", "NYC Graph Schema"),
       Resource("datagraph://schema/kc", "Kansas City Graph Schema"),
       Resource("datagraph://usage/stats", "API Usage Statistics") >>

ToolNames(v) == {TOOLS(v)[i].name : i \in 1..Len(TOOLS(v))}
PromptNames == {PROMPTS[i].name : i \in 1..Len(PROMPTS)}
ResourceUris == {RESOURCES[i].uri : i \in 1..Len(RESOURCES)}

\* the descriptor of a registered tool
Descriptor(v, name) == TOOLS(v)[CHOOSE i \in 1..Len(TOOLS(v)) : TOOLS(v)[i].name = name]

(***************************************************************************)
(* State.                                                                  *)
(***************************************************************************)
VARIABLES
    variant,    \* which build of the server this process runs
    env,        \* process.env: DATAGRAPH_API_KEY and DATAGRAPH_API_URL
    API_KEY,    \* const API_KEY (Undefined until the module has been loaded)
    API_URL,    \* const API_URL
    proc,       \* "starting", "running" or "exited"
    exitCode,   \* the status passed to process.exit, -1 while the process lives
    stderr,     \* the lines written with console.error
    registry,   \* the arrays TOOLS, PROMPTS and RESOURCES of the loaded module
    inv         \* the request contexts: one record per slot of the transport

vars == <<variant, env, API_KEY, API_URL, proc, exitCode, stderr, registry, inv>>

\* how many requests the host may have in flight
MaxInflight == 2
Slots == 1..MaxInflight

(***************************************************************************)
(* What one synchronous run of a handler ends in: it returns a result,     *)
(* throws, or suspends on an awaited promise (fetch or response.json()).   *)
(***************************************************************************)
Return(result) == [k |-> "return", result |-> result]
Throw(message) == [k |-> "throw", message |-> message]
AwaitFetch(request) == [k |-> "fetch", request |-> request]
AwaitJson == [k |-> "json"]

\* fetch(url, { method, headers, body })
Fetch(method, url, headers, body) ==
    [method |-> method, url |-> url, headers |-> headers, body |-> body]

\* the credential header of every outbound call
AuthHeaders(v) ==
    IF v = "v10"
    THEN << <<"X-API-Key", JsString(API_KEY)>> >>
    ELSE << <<"Authorization", "Bearer " \o JsString(API_KEY)>> >>

\* { content: [{ type: 'text', text }] }
TextResult(text) == [content |-> << [type |-> "text", text |-> text] >>]

\* the catch block of the tool handler
ToolError(message) ==
    [content |-> << [type |-> "text", text |-> "Error: " \o message] >>,
     isError |-> TRUE]

\* encodeURIComponent: the characters outside A-Z a-z 0-9 - _ . ! ~ * ' ( )
\* are percent-encoded (the table holds the ones the requests here use)
EncodeChar(c) ==
    CASE c = "/" -> "%2F"
      [] c = "?" -> "%3F"
      [] c = "#" -> "%23"
      [] c = "&" -> "%26"
      [] c = "=" -> "%3D"
      [] c = " " -> "%20"
      [] OTHER -> c

RECURSIVE encodeURIComponent(_)
encodeURIComponent(s) ==
    IF Len(s) = 0 THEN ""
    ELSE EncodeChar(SubSeq(s, 1, 1)) \o encodeURIComponent(SubSeq(s, 2, Len(s)))

\* V8's message for destructuring undefined or null
DestructureError(first, v) ==
    "Cannot destructure property '" \o first \o "' of 'args' as it is "
        \o JsString(v) \o "."

\* package.json, read at load time
packageJson ==
    JObj(<< <<"name", JStr("datagraph-mcp-server")>>,
            <<"version", JStr("1.3.0")>>,
            <<"description", JStr("MCP server for DataGraph urban data API")>>,
            <<"homepage", JStr("https://datagraph.city")>>,
            <<"repository", JObj(<< <<"url",
                JStr("https://github.com/team-earth/datagraph-city-mcp-server")>> >>)>> >>)

(***************************************************************************)
(* The tool handler (CallToolRequestSchema), one operator per switch case. *)
(* Each gives what the case does up to its first await.                    *)
(***************************************************************************)
LocalityRequired ==
    "locality parameter is required. Call list_datasets to discover available locality codes."

\* response.ok
Ok(status) == status \in 200..299

\* case 'get_server_info'
ServerInfoCase ==
    IF ~CanReadProperty(Get(packageJson, "repository"))
    THEN Throw("Cannot read properties of undefined (reading 'url')")
    ELSE Return(TextResult(StringifyPretty(
            JObj(<< <<"name", Get(packageJson, "name")>>,
                    <<"version", Get(packageJson, "version")>>,
                    <<"description", Get(packageJson, "description")>>,
                    <<"homepage", Get(packageJson, "homepage")>>,
                    <<"repository", Get(Get(packageJson, "repository"), "url")>>,
                    <<"gosr_framework", JObj(<<
                        <<"spelling", JStr("ALWAYS: Goal-Obstacles-Solutions-Resources (Goal singular, rest plural)")>>,
                        <<"goal", JStr("A single aspirational future picture (singular)")>>,
                        <<"obstacles", JStr("Barriers preventing the goal (plural)")>>,
                        <<"solutions", JStr("POTENTIAL strategies to overcome obstacles if implemented (plural - NOT actual programs)")>>,
                        <<"resources", JStr("ACTUAL programs/initiatives currently operating (plural)")>>,
                        <<"actors", JStr("Organizations running the Resources (in model but not in GOSR acronym)")>> >>)>> >>),
            "")))

\* the body with the default applied to any falsy limit (limit || 10)
RequestBodyLimitOr(query, category, limit, cypher_query, cypher_params) ==
    JObj(<< <<"query", query>>, <<"category", category>>,
            <<"limit", IF Truthy(limit) THEN limit ELSE JNum(10)>> >>
         \o (IF Truthy(cypher_query)
             THEN << <<"cypher_query", cypher_query>> >>
                  \o (IF Truthy(cypher_params)
                      THEN << <<"cypher_params", cypher_params>> >>
                      ELSE << >>)
             ELSE << >>))

\* const requestBody = { query, category, limit }; plus the Cypher fields
RequestBody(query, category, limit, cypher_query, cypher_params) ==
    JObj(<< <<"query", query>>, <<"category", category>>, <<"limit", limit>> >>
         \o (IF Truthy(cypher_query)
             THEN << <<"cypher_query", cypher_query>> >>
                  \o (IF Truthy(cypher_params)
                      THEN << <<"cypher_params", cypher_params>> >>
                      ELSE << >>)
             ELSE << >>))

\* the query case of the 1.3.0 build keeping the default of the city builds:
\* `locality = 'nyc'` and no check
QueryCaseDefaultNyc(v, args) ==
    IF ~CanReadProperty(args) THEN Throw(DestructureError("query", args))
    ELSE LET locality == DefaultTo(Get(args, IF v = "v13" THEN "locality" ELSE "city"),
                                   JStr("nyc"))
             requestBody == RequestBody(Get(args, "query"), Get(args, "category"),
                                        DefaultTo(Get(args, "limit"), JNum(10)),
                                        Get(args, "cypher_query"),
                                        Get(args, "cypher_params"))
         IN  AwaitFetch(Fetch("POST",
                 JsString(API_URL) \o "/api/" \o JsString(locality) \o "/query",
                 AuthHeaders(v) \o << <<"Content-Type", "application/json">> >>,
                 JStr(Stringify(requestBody))))

\* case 'query_locality_data' (v13) / case 'query_city_data' (the others)
QueryCase(v, args) ==
    IF ~CanReadProperty(args) THEN Throw(DestructureError("query", args))
    ELSE LET locality == IF v = "v13" THEN Get(args, "locality")
                         ELSE DefaultTo(Get(args, "city"), JStr("nyc"))
             requestBody == RequestBody(Get(args, "query"), Get(args, "category"),
                                        DefaultTo(Get(args, "limit"), JNum(10)),
                                        Get(args, "cypher_query"),
                                        Get(args, "cypher_params"))
         IN  IF v = "v13" /\ ~Truthy(locality) THEN Throw(LocalityRequired)
             ELSE AwaitFetch(Fetch("POST",
                     JsString(API_URL) \o "/api/" \o JsString(locality) \o "/query",
                     AuthHeaders(v) \o << <<"Content-Type", "application/json">> >>,
                     JStr(Stringify(requestBody))))

\* the schema case fetching a path of another shape: /schema/<locality>
SchemaCaseOtherPath(v, args) ==
    IF ~CanReadProperty(args)
    THEN Throw(DestructureError(IF v = "v13" THEN "locality" ELSE "city", args))
    ELSE LET locality == IF v = "v13" THEN Get(args, "locality")
                         ELSE DefaultTo(Get(args, "city"), JStr("nyc"))
         IN  IF v = "v13" /\ ~Truthy(locality) THEN Throw(LocalityRequired)
             ELSE AwaitFetch(Fetch("GET",
                     JsString(API_URL) \o "/schema/" \o JsString(locality),
                     AuthHeaders(v), Undefined))

\* case 'get_locality_schema' (v13) / case 'get_city_schema' (the others)
SchemaCase(v, args) ==
    IF ~CanReadProperty(args)
    THEN Throw(DestructureError(IF v = "v13" THEN "locality" ELSE "city", args))
    ELSE LET locality == IF v = "v13" THEN Get(args, "locality")
                         ELSE DefaultTo(Get(args, "city"), JStr("nyc"))
         IN  IF v = "v13" /\ ~Truthy(locality) THEN Throw(LocalityRequired)
             ELSE AwaitFetch(Fetch("GET",
                     JsString(API_URL) \o "/api/" \o JsString(locality) \o "/schema",
                     AuthHeaders(v), Undefined))

\* case 'list_cities' (v11, v10)
ListCitiesCase(v) ==
    AwaitFetch(Fetch("GET", JsString(API_URL) \o "/cities", AuthHeaders(v), Undefined))

\* the list_datasets case putting the filter into the URL as given
ListDatasetsCaseRaw(v, args) ==
    IF ~CanReadProperty(args)
    THEN Throw(DestructureError(IF v = "v13" THEN "locality" ELSE "city", args))
    ELSE LET key == IF v = "v13" THEN "locality" ELSE "city"
             filter == Get(args, key)
             url == IF Truthy(filter)
                    THEN JsString(API_URL) \o "/datasets?" \o key \o "="
                             \o JsString(filter)
                    ELSE JsString(API_URL) \o "/datasets"
         IN  AwaitFetch(Fetch("GET", url, AuthHeaders(v), Undefined))

\* case 'list_datasets' (v13: ?locality=, v11 and v12: ?city=)
ListDatasetsCase(v, args) ==
    IF ~CanReadProperty(args)
    THEN Throw(DestructureError(IF v = "v13" THEN "locality" ELSE "city", args))
    ELSE LET key == IF v = "v13" THEN "locality" ELSE "city"
             filter == Get(args, key)
             url == IF Truthy(filter)
                    THEN JsString(API_URL) \o "/datasets?" \o key \o "="
                             \o encodeURIComponent(JsString(filter))
                    ELSE JsString(API_URL) \o "/datasets"
         IN  AwaitFetch(Fetch("GET", url, AuthHeaders(v), Undefined))

\* the usage case left on the 1.0.0 header when the others moved to Bearer
UsageStatsCaseApiKey(v) ==
    AwaitFetch(Fetch("GET", JsString(API_URL) \o "/usage", AuthHeaders("v10"), Undefined))

\* case 'get_usage_stats'
UsageStatsCase(v) ==
    AwaitFetch(Fetch("GET", JsString(API_URL) \o "/usage", AuthHeaders(v), Undefined))

\* the case labels with `case 'list_cities'` left in the 1.2 build
SwitchCasesKeepingListCities(v) ==
    CASE v = "v13" -> {"get_server_info", "query_locality_data", "get_locality_schema",
                       "list_datasets", "get_usage_stats"}
      [] v = "v10" -> {"query_city_data", "get_city_schema", "list_cities",
                       "get_usage_stats"}
      [] OTHER -> {"query_city_data", "get_city_schema", "list_cities",
                   "list_datasets", "get_usage_stats"}

\* the case labels of the switch in each build
SwitchCases(v) ==
    CASE v = "v13" -> {"get_server_info", "query_locality_data", "get_locality_schema",
                       "list_datasets", "get_usage_stats"}
      [] v = "v11" -> {"query_city_data", "get_city_schema", "list_cities",
                       "list_datasets", "get_usage_stats"}
      [] v = "v12" -> {"query_city_data", "get_city_schema", "list_datasets",
                       "get_usage_stats"}
      [] OTHER -> {"query_city_data", "get_city_schema", "list_cities",
                   "get_usage_stats"}

IsQuery(name) == name \in {"query_locality_data", "query_city_data"}
IsSchema(name) == name \in {"get_locality_schema", "get_city_schema"}

\* the switch without its default case: an unknown name falls into the last case
CallToolSwitchNoDefault(v, name, args) ==
    CASE name = "get_server_info" /\ name \in SwitchCases(v) -> ServerInfoCase
      [] IsQuery(name) -> QueryCase(v, args)
      [] IsSchema(name) -> SchemaCase(v, args)
      [] name = "list_cities" /\ name \in SwitchCases(v) -> ListCitiesCase(v)
      [] name = "list_datasets" /\ name \in SwitchCases(v) -> ListDatasetsCase(v, args)
      [] OTHER -> UsageStatsCase(v)

\* switch (name) { ... default: throw new Error(`Unknown tool: ${name}`) }
CallToolSwitch(v, name, args) ==
    CASE name \notin SwitchCases(v) -> Throw("Unknown tool: " \o name)
      [] name = "get_server_info" -> ServerInfoCase
      [] IsQuery(name) -> QueryCase(v, args)
      [] IsSchema(name) -> SchemaCase(v, args)
      [] name = "list_cities" -> ListCitiesCase(v)
      [] name = "list_datasets" -> ListDatasetsCase(v, args)
      [] OTHER -> UsageStatsCase(v)

\* the fixed message each case throws on `!response.ok`
FailedMessage(name) ==
    CASE IsQuery(name) -> "Query failed"
      [] IsSchema(name) -> "Failed to fetch schema"
      [] name = "list_cities" -> "Failed to list cities"
      [] name = "list_datasets" -> "Failed to list datasets"
      [] OTHER -> "Failed to get usage stats"

\* every case reading the error body, as the query case does
ToolAfterFetchAllRead(name, settled) ==
    IF settled.k = "rejected" THEN Throw(settled.message)
    ELSE AwaitJson

\* a case that calls the remote once more after a failure
ToolAfterFetchRetry(name, settled) ==
    IF settled.k = "rejected" \/ ~Ok(settled.status)
    THEN AwaitFetch(Fetch("GET", JsString(API_URL) \o "/usage", << >>, Undefined))
    ELSE AwaitJson

\* a case resumed when its fetch settles: settled is the response (its
\* status) or the rejection (its message)
ToolAfterFetch(name, settled) ==
    IF settled.k = "rejected" THEN Throw(settled.message)
    ELSE IF Ok(settled.status) THEN AwaitJson
    ELSE IF IsQuery(name) THEN AwaitJson
    ELSE Throw(FailedMessage(name))

\* the remote's error field ignored, as the other cases do
QueryErrorMessageFixed(error) == "Query failed"

\* throw new Error(error.error || 'Query failed')
QueryErrorMessage(error) ==
    IF Truthy(Get(error, "error")) THEN JsString(Get(error, "error"))
    ELSE "Query failed"

\* JSON.stringify(data) without the indentation argument
ToolAfterJsonCompact(name, status, parsed) ==
    IF parsed.k = "rejected" THEN Throw(parsed.message)
    ELSE IF Ok(status) THEN Return(TextResult(Stringify(parsed.value)))
    ELSE IF ~CanReadProperty(parsed.value)
         THEN Throw("Cannot read properties of " \o JsString(parsed.value)
                        \o " (reading 'error')")
    ELSE Throw(QueryErrorMessage(parsed.value))

\* a case that hands a string payload on as it is and pretty-prints the rest
ToolAfterJsonStringAsIs(name, status, parsed) ==
    IF parsed.k = "rejected" THEN Throw(parsed.message)
    ELSE IF Ok(status)
         THEN Return(TextResult(IF parsed.value.t = "str" THEN parsed.value.s
                                ELSE StringifyPretty(parsed.value, "")))
    ELSE IF ~CanReadProperty(parsed.value)
         THEN Throw("Cannot read properties of " \o JsString(parsed.value)
                        \o " (reading 'error')")
    ELSE Throw(QueryErrorMessage(parsed.value))

\* a case resumed when response.json() settles: parsed is the value or the
\* rejection
ToolAfterJson(name, status, parsed) ==
    IF parsed.k = "rejected" THEN Throw(parsed.message)
    ELSE IF Ok(status) THEN Return(TextResult(StringifyPretty(parsed.value, "")))
    ELSE IF ~CanReadProperty(parsed.value)
         THEN Throw("Cannot read properties of " \o JsString(parsed.value)
                        \o " (reading 'error')")
    ELSE Throw(QueryErrorMessage(parsed.value))

\* the handler without its try/catch: what a case throws leaves the handler
ToolNoCatch(step) == step

\* try { ... } catch (error) { return { content: [...], isError: true } }
ToolCatch(step) ==
    IF step.k = "throw" THEN Return(ToolError(step.message)) ELSE step

(***************************************************************************)
(* The prompt handler (GetPromptRequestSchema), v13 only.  It has no       *)
(* try/catch: what a case throws leaves the handler.                       *)
(***************************************************************************)
\* { messages: [{ role: 'user', content: { type: 'text', text } }] }
PromptResult(text) ==
    [messages |-> << [role |-> "user", content |-> [type |-> "text", text |-> text]] >>]

LocalityArgumentRequired ==
    "locality argument is required. Call list_datasets to discover available locality codes."

\* args?.k
OptGet(args, k) == IF CanReadProperty(args) THEN Get(args, k) ELSE Undefined

\* case 'explore_locality_data'
ExploreLocalityCase(args) ==
    LET locality == OptGet(args, "locality") IN
    IF ~Truthy(locality) THEN Throw(LocalityArgumentRequired)
    ELSE Return(PromptResult(
            "I want to explore urban data for " \o JsString(locality)
            \o ". Let's start by:\n"
            \o "1. Listing available localities and their datasets\n"
            \o "2. Getting the graph schema for " \o JsString(locality) \o "\n"
            \o "3. Understanding what kinds of questions I can ask\n"
            \o "\n"
            \o "Please guide me through this process."))

\* case 'analyze_gosr_dataset' with the default applied to an absent focus
\* only (focus ?? 'general overview' in place of ||)
AnalyzeGosrCaseNullish(args) ==
    LET dataset == OptGet(args, "dataset")
        focus == IF OptGet(args, "focus") \in {Undefined, JNull}
                 THEN JStr("general overview") ELSE OptGet(args, "focus")
    IN  IF ~Truthy(dataset) THEN Throw("dataset argument is required")
        ELSE Return(PromptResult(
                "I want to analyze the \"" \o JsString(dataset)
                \o "\" GOSR dataset, focusing on: " \o JsString(focus) \o ".\n"
                \o "\n"
                \o "Please help me:\n"
                \o "1. List available GOSR datasets to confirm this one exists\n"
                \o "2. Get the schema to understand the data structure\n"
                \o "3. Query for relevant Goals, Obstacles, Solutions, and Resources\n"
                \o "4. Summarize key insights and patterns\n"
                \o "\n"
                \o "Use the GOSR framework (gosr.ai) to structure the analysis."))

\* case 'analyze_gosr_dataset'
AnalyzeGosrCase(args) ==
    LET dataset == OptGet(args, "dataset")
        focus == IF Truthy(OptGet(args, "focus")) THEN OptGet(args, "focus")
                 ELSE JStr("general overview")
    IN  IF ~Truthy(dataset) THEN Throw("dataset argument is required")
        ELSE Return(PromptResult(
                "I want to analyze the \"" \o JsString(dataset)
                \o "\" GOSR dataset, focusing on: " \o JsString(focus) \o ".\n"
                \o "\n"
                \o "Please help me:\n"
                \o "1. List available GOSR datasets to confirm this one exists\n"
                \o "2. Get the schema to understand the data structure\n"
                \o "3. Query for relevant Goals, Obstacles, Solutions, and Resources\n"
                \o "4. Summarize key insights and patterns\n"
                \o "\n"
                \o "Use the GOSR framework (gosr.ai) to structure the analysis."))

\* case 'cypher_query_builder' with the second check left out: the template
\* is filled in with whatever user_question is
CypherBuilderCaseUnchecked(args) ==
    LET locality == OptGet(args, "locality")
        user_question == OptGet(args, "user_question")
    IN  IF ~Truthy(locality) THEN Throw(LocalityArgumentRequired)
        ELSE Return(PromptResult(
                "I want to query " \o JsString(locality) \o " data to answer: \""
                \o JsString(user_question) \o "\"\n"))

\* case 'cypher_query_builder'
CypherBuilderCase(args) ==
    LET locality == OptGet(args, "locality")
        user_question == OptGet(args, "user_question")
    IN  IF ~Truthy(locality) THEN Throw(LocalityArgumentRequired)
        ELSE IF ~Truthy(user_question) THEN Throw("user_question argument is required")
        ELSE Return(PromptResult(
                "I want to query " \o JsString(locality) \o " data to answer: \""
                \o JsString(user_question) \o "\"\n"
                \o "\n"
                \o "Please help me:\n"
                \o "1. Get the graph schema for " \o JsString(locality) \o "\n"
                \o "2. Understand what node labels and relationships are available\n"
                \o "3. Generate an appropriate Cypher query based on my question\n"
                \o "4. Execute the query and interpret the results\n"
                \o "\n"
                \o "Remember to include LIMIT clauses and ensure read-only operations."))

\* the prompt handler shaped like the tool handler: failures caught and
\* returned as an error-flagged envelope
GetPromptCaught(name, args) ==
    ToolCatch(CASE name = "explore_locality_data" -> ExploreLocalityCase(args)
                [] name = "analyze_gosr_dataset" -> AnalyzeGosrCase(args)
                [] name = "cypher_query_builder" -> CypherBuilderCase(args)
                [] OTHER -> Throw("Unknown prompt: " \o name))

\* switch (name) { ... default: throw new Error(`Unknown prompt: ${name}`) }
GetPrompt(name, args) ==
    CASE name = "explore_locality_data" -> ExploreLocalityCase(args)
      [] name = "analyze_gosr_dataset" -> AnalyzeGosrCase(args)
      [] name = "cypher_query_builder" -> CypherBuilderCase(args)
      [] OTHER -> Throw("Unknown prompt: " \o name)

(***************************************************************************)
(* The resource handler (ReadResourceRequestSchema), v13 only.             *)
(***************************************************************************)
\* uri.split('/').pop(): the part after the last '/'
RECURSIVE LastSegment(_)
LastSegment(s) ==
    IF \E i \in 1..Len(s) : SubSeq(s, i, i) = "/"
    THEN LastSegment(SubSeq(s, (CHOOSE i \in 1..Len(s) : SubSeq(s, i, i) = "/"
                                    /\ \A j \in 1..(i-1) : SubSeq(s, j, j) # "/") + 1, Len(s)))
    ELSE s

IsSchemaUri(uri) == uri \in {"datagraph://schema/nyc", "datagraph://schema/kc"}

\* the endpoints with the GOSR resource read from a path of its own
ResourcePathGosr(uri) ==
    CASE uri = "datagraph://cities/list" -> "/cities"
      [] uri = "datagraph://datasets/gosr" -> "/datasets/gosr"
      [] IsSchemaUri(uri) -> "/api/" \o LastSegment(uri) \o "/schema"
      [] OTHER -> "/usage"

\* the endpoint each case of the switch fetches
ResourcePath(uri) ==
    CASE uri = "datagraph://cities/list" -> "/cities"
      [] uri = "datagraph://datasets/gosr" -> "/datasets"
      [] IsSchemaUri(uri) -> "/api/" \o LastSegment(uri) \o "/schema"
      [] OTHER -> "/usage"

\* a switch that matches the registered uris as prefixes
ReadResourceSwitchPrefix(uri) ==
    IF \E u \in {"datagraph://cities/list", "datagraph://datasets/gosr",
                  "datagraph://schema/nyc", "datagraph://schema/kc",
                  "datagraph://usage/stats"} :
           Len(uri) >= Len(u) /\ SubSeq(uri, 1, Len(u)) = u
    THEN AwaitFetch(Fetch("GET", JsString(API_URL) \o ResourcePath(uri),
                          AuthHeaders("v13"), Undefined))
    ELSE Throw("Unknown resource: " \o uri)

\* switch (uri) { ... default: throw new Error(`Unknown resource: ${uri}`) }
ReadResourceSwitch(uri) ==
    IF uri \in {"datagraph://cities/list", "datagraph://datasets/gosr",
                "datagraph://schema/nyc", "datagraph://schema/kc",
                "datagraph://usage/stats"}
    THEN AwaitFetch(Fetch("GET", JsString(API_URL) \o ResourcePath(uri),
                          AuthHeaders("v13"), Undefined))
    ELSE Throw("Unknown resource: " \o uri)

\* the fixed message each case throws on `!response.ok`
ResourceFailedMessage(uri) ==
    CASE uri = "datagraph://cities/list" -> "Failed to fetch cities"
      [] uri = "datagraph://datasets/gosr" -> "Failed to fetch datasets"
      [] IsSchemaUri(uri) -> "Failed to fetch schema for " \o LastSegment(uri)
      [] OTHER -> "Failed to fetch usage stats"

ResourceAfterFetch(uri, settled) ==
    IF settled.k = "rejected" THEN Throw(settled.message)
    ELSE IF Ok(settled.status) THEN AwaitJson
    ELSE Throw(ResourceFailedMessage(uri))

\* { contents: [{ uri, mimeType: 'application/json', text }] }
ResourceAfterJson(uri, parsed) ==
    IF parsed.k = "rejected" THEN Throw(parsed.message)
    ELSE Return([contents |-> << [uri |-> uri, mimeType |-> "application/json",
                                  text |-> StringifyPretty(parsed.value, "")] >>])

\* the resource handler shaped like the tool handler: failures returned as
\* an error-flagged envelope
ResourceCatchReturns(uri, step) == ToolCatch(step)

\* catch (error) { throw new Error(`Failed to read resource ${uri}: ${error.message}`) }
ResourceCatch(uri, step) ==
    IF step.k = "throw"
    THEN Throw("Failed to read resource " \o uri \o ": " \o step.message)
    ELSE step

(***************************************************************************)
(* The remote API and the host, as far as the requests here exercise them. *)
(***************************************************************************)
\* the JSON documents the remote API answers with
Payloads ==
    { JObj(<< <<"results", JArr(<<JNum(1), JNum(2), JNum(3)>>)>> >>),
      JObj(<< <<"error", JStr("not found")>> >>),
      JObj(<< <<"error", JStr("")>> >>),
      JObj(<< <<"error", JObj(<< <<"code", JNum(7)>> >>)>> >>),
      JObj(<< <<"detail", JStr("rate limited")>> >>),
      JStr("Error: boom"),
      JNull }

\* response bodies on the wire: the documents above, and two that are no JSON
NotJson == {"<html>Bad Gateway</html>", ""}
Bodies == {Stringify(p) : p \in Payloads} \cup NotJson

Statuses == {200, 201, 404, 500}

\* what an awaited fetch settles to
Response(status) == [k |-> "response", status |-> status]
Rejected(message) == [k |-> "rejected", message |-> message]
FetchOutcomes == {Response(s) : s \in Statuses} \cup {Rejected("fetch failed")}

\* response.json(): JSON.parse of the body, a SyntaxError when it is no JSON
ParseJson(text) ==
    IF \E p \in Payloads : Stringify(p) = text
    THEN [k |-> "value", value |-> CHOOSE p \in Payloads : Stringify(p) = text]
    ELSE Rejected(IF text = "" THEN "Unexpected end of JSON input"
                  ELSE "Unexpected token " \o SubSeq(text, 1, 1) \o " in JSON at position 0")

\* the argument mappings the host sends (undefined: no `arguments` at all)
Args(pairs) == JObj(pairs)
ToolArguments ==
    { Undefined,
      Args(<< >>),
      Args(<< <<"query", JStr("subway stations")>> >>),
      Args(<< <<"locality", JStr("nyc")>> >>),
      Args(<< <<"query", JNull>>, <<"locality", JStr("kc")>> >>),
      Args(<< <<"query", JStr("parks")>>, <<"locality", JStr("nyc")>> >>),
      Args(<< <<"query", JStr("parks")>>, <<"locality", JNull>> >>),
      Args(<< <<"query", JStr("parks")>>, <<"locality", JStr("")>> >>),
      Args(<< <<"query", JStr("parks")>>, <<"city", JStr("kc")>> >>),
      Args(<< <<"city", JStr("kc")>> >>),
      Args(<< <<"query", JStr("permits")>>, <<"locality", JStr("kc")>>,
              <<"city", JStr("kc")>>, <<"category", JStr("transit")>>,
              <<"limit", JNum(5)>>,
              <<"cypher_query", JStr("MATCH (n) RETURN n LIMIT 5")>>,
              <<"cypher_params", JObj(<< <<"borough", JStr("M")>> >>)>> >>),
      Args(<< <<"query", JStr("permits")>>, <<"locality", JStr("nyc")>>,
              <<"limit", JNum(0)>>,
              <<"cypher_params", JObj(<< <<"borough", JStr("M")>> >>)>> >>),
      Args(<< <<"query", JStr("usage")>>, <<"locality", JStr("nyc/../../usage?x=1#")>>,
              <<"city", JStr("nyc/../../usage?x=1#")>> >>) }

\* the tool names the host asks for: every build's tools, and names of none
ToolNamesAsked ==
    UNION {ToolNames(v) : v \in Variants}
        \cup {"Get_Usage_Stats", "query_locality_data ", "toString"}

PromptArguments ==
    { Undefined,
      Args(<< >>),
      Args(<< <<"locality", JStr("nyc")>> >>),
      Args(<< <<"locality", JStr("")>>, <<"user_question", JStr("Where are the parks?")>> >>),
      Args(<< <<"locality", JStr("kc")>>, <<"user_question", JStr("Where are the parks?")>> >>),
      Args(<< <<"dataset", JStr("Un-Lonely NYC")>> >>),
      Args(<< <<"dataset", JStr("Un-Lonely NYC")>>, <<"focus", JStr("social isolation")>> >>),
      Args(<< <<"dataset", JStr("Un-Lonely NYC")>>, <<"focus", JStr("")>> >>),
      Args(<< <<"focus", JStr("social isolation")>> >>) }

PromptNamesAsked == PromptNames \cup {"explore_city_data", "Analyze_Gosr_Dataset"}

UrisAsked ==
    ResourceUris \cup {"datagraph://schema/sf", "datagraph://cities/list/",
                       "DATAGRAPH://usage/stats", "datagraph://schema"}

Environments ==
    [ DATAGRAPH_API_KEY : {Undefined, JStr(""), JStr("dgc_test_key")},
      DATAGRAPH_API_URL : {Undefined, JStr("http://localhost:8000")} ]

\* the registries before the module body has run, and once it has: only the
\* 1.3.0 build declares prompts and resources
NotLoaded == [tools |-> << >>, prompts |-> << >>, resources |-> << >>]

Loaded(v) ==
    [tools |-> TOOLS(v),
     prompts |-> IF v = "v13" THEN PROMPTS ELSE << >>,
     resources |-> IF v = "v13" THEN RESOURCES ELSE << >>]

(***************************************************************************)
(* Request contexts.                                                       *)
(***************************************************************************)
NoRequest == [method |-> "none", name |-> "", args |-> Undefined]
NoOutcome == [k |-> "none"]

\* a slot with no request in it
Idle ==
    [pc |-> "idle", req |-> NoRequest, out |-> << >>, hung |-> FALSE,
     status |-> 0, body |-> Undefined, outcome |-> NoOutcome]

Request(method, name, args) == [method |-> method, name |-> name, args |-> args]

\* a handler that does not await its fetch: it issues the call and answers
AdvanceWithoutAwait(c, step) ==
    CASE step.k = "fetch" -> [c EXCEPT !.pc = "done", !.out = Append(@, step.request),
                                       !.outcome = Return([content |-> << >>])]
      [] step.k = "json" -> [c EXCEPT !.pc = "json"]
      [] OTHER -> [c EXCEPT !.pc = "done", !.outcome = step]

\* a handler that calls fetch without awaiting it and goes on to read the body
AdvanceFetchNotAwaited(c, step) ==
    CASE step.k = "fetch" -> [c EXCEPT !.pc = "json", !.out = Append(@, step.request)]
      [] step.k = "json" -> [c EXCEPT !.pc = "json"]
      [] OTHER -> [c EXCEPT !.pc = "done", !.outcome = step]

\* the context after a synchronous run of its handler ended in `step`
Advance(c, step) ==
    CASE step.k = "fetch" -> [c EXCEPT !.pc = "fetch", !.out = Append(@, step.request)]
      [] step.k = "json" -> [c EXCEPT !.pc = "json"]
      [] OTHER -> [c EXCEPT !.pc = "done", !.outcome = step]

\* a tools/list handler that pages its answer: the first three descriptors
ListToolsHandlerPaged == Return([tools |-> SubSeq(registry.tools, 1, 3)])

\* the three list handlers: each returns the registry array itself
ListToolsHandler == Return([tools |-> registry.tools])

ListPromptsHandler == Return([prompts |-> registry.prompts])

ListResourcesHandler == Return([resources |-> registry.resources])

\* the handler of a request, run up to its first await
Start(v, req) ==
    CASE req.method = "tools/call" -> ToolCatch(CallToolSwitch(v, req.name, req.args))
      [] req.method = "prompts/get" -> GetPrompt(req.name, req.args)
      [] req.method = "tools/list" -> ListToolsHandler
      [] req.method = "prompts/list" -> ListPromptsHandler
      [] req.method = "resources/list" -> ListResourcesHandler
      [] OTHER -> ResourceCatch(req.name, ReadResourceSwitch(req.name))

\* the handler resumed after its fetch settled
AfterFetch(req, settled) ==
    IF req.method = "tools/call" THEN ToolCatch(ToolAfterFetch(req.name, settled))
    ELSE ResourceCatch(req.name, ResourceAfterFetch(req.name, settled))

\* the handler resumed after response.json() settled
AfterJson(req, status, parsed) ==
    IF req.method = "tools/call" THEN ToolCatch(ToolAfterJson(req.name, status, parsed))
    ELSE ResourceCatch(req.name, ResourceAfterJson(req.name, parsed))

(***************************************************************************)
(* Actions.                                                                *)
(***************************************************************************)
Init ==
    /\ variant \in Variants
    /\ env \in Environments
    /\ API_KEY = Undefined
    /\ API_URL = Undefined
    /\ proc = "starting"
    /\ exitCode = -1
    /\ stderr = << >>
    /\ registry = NotLoaded
    /\ inv = [i \in Slots |-> Idle]

\* a startup that only warns about the missing credential and goes on
StartupWarns ==
    /\ proc = "starting"
    /\ API_KEY' = env.DATAGRAPH_API_KEY
    /\ API_URL' = IF Truthy(env.DATAGRAPH_API_URL) THEN env.DATAGRAPH_API_URL
                  ELSE JStr("https://api.datagraph.city")
    /\ stderr' = IF ~Truthy(env.DATAGRAPH_API_KEY)
                 THEN << "Error: DATAGRAPH_API_KEY environment variable is required",
                         "DataGraph MCP server running on stdio" >>
                 ELSE << "DataGraph MCP server running on stdio" >>
    /\ proc' = "running"
    /\ registry' = Loaded(variant)
    /\ UNCHANGED <<variant, env, exitCode, inv>>

\* module load and main(): read the environment, refuse to start without the
\* credential, else connect the stdio transport
Startup ==
    /\ proc = "starting"
    /\ API_KEY' = env.DATAGRAPH_API_KEY
    /\ API_URL' = IF Truthy(env.DATAGRAPH_API_URL) THEN env.DATAGRAPH_API_URL
                  ELSE JStr("https://api.datagraph.city")
    /\ IF ~Truthy(env.DATAGRAPH_API_KEY)
       THEN /\ stderr' = Append(stderr, "Error: DATAGRAPH_API_KEY environment variable is required")
            /\ proc' = "exited"
            /\ exitCode' = 1
            /\ registry' = registry
       ELSE /\ stderr' = Append(stderr, "DataGraph MCP server running on stdio")
            /\ proc' = "running"
            /\ exitCode' = exitCode
            /\ registry' = Loaded(variant)
    /\ UNCHANGED <<variant, env, inv>>

\* a request arrives in slot i and its handler runs up to its first await
Receive(i, req) ==
    /\ proc = "running"
    /\ inv[i].pc = "idle"
    /\ inv' = [inv EXCEPT ![i] = Advance([Idle EXCEPT !.req = req], Start(variant, req))]
    /\ UNCHANGED <<variant, env, API_KEY, API_URL, proc, exitCode, stderr, registry>>

CallTool(i) ==
    \E name \in ToolNamesAsked, args \in ToolArguments :
        Receive(i, Request("tools/call", name, args))

GetPromptRequest(i) ==
    /\ variant = "v13"
    /\ \E name \in PromptNamesAsked, args \in PromptArguments :
          Receive(i, Request("prompts/get", name, args))

ReadResource(i) ==
    /\ variant = "v13"
    /\ \E uri \in UrisAsked : Receive(i, Request("resources/read", uri, Undefined))

ListTools(i) == Receive(i, Request("tools/list", "", Undefined))

ListPrompts(i) ==
    /\ variant = "v13"
    /\ Receive(i, Request("prompts/list", "", Undefined))

ListResources(i) ==
    /\ variant = "v13"
    /\ Receive(i, Request("resources/list", "", Undefined))

\* the awaited fetch of slot i settles with one of the outcomes: a response
\* arrives or the call fails
FetchSettlesWith(i, outcomes) ==
    /\ inv[i].pc = "fetch"
    /\ ~inv[i].hung
    /\ \E settled \in outcomes :
          inv' = [inv EXCEPT ![i] =
                    Advance([@ EXCEPT !.status = IF settled.k = "response"
                                                 THEN settled.status ELSE 0],
                            AfterFetch(inv[i].req, settled))]
    /\ UNCHANGED <<variant, env, API_KEY, API_URL, proc, exitCode, stderr, registry>>

FetchSettles(i) == FetchSettlesWith(i, FetchOutcomes)

\* a handler keeping the request it works on in one module-level variable,
\* overwritten by each arrival: after the await it resumes with the request
\* of the highest busy slot
JsonSettlesWithShared(i, bodies) ==
    /\ inv[i].pc = "json"
    /\ ~inv[i].hung
    /\ \E text \in bodies :
          LET last == CHOOSE j \in Slots :
                          /\ inv[j].pc # "idle"
                          /\ \A k \in Slots : inv[k].pc # "idle" => k <= j
          IN  inv' = [inv EXCEPT ![i] =
                        Advance([@ EXCEPT !.body = JStr(text)],
                                AfterJson(inv[last].req, inv[i].status, ParseJson(text)))]
    /\ UNCHANGED <<variant, env, API_KEY, API_URL, proc, exitCode, stderr, registry>>

\* the awaited response.json() of slot i settles: one of the bodies has been
\* read
JsonSettlesWith(i, bodies) ==
    /\ inv[i].pc = "json"
    /\ ~inv[i].hung
    /\ \E text \in bodies :
          inv' = [inv EXCEPT ![i] =
                    Advance([@ EXCEPT !.body = JStr(text)],
                            AfterJson(inv[i].req, inv[i].status, ParseJson(text)))]
    /\ UNCHANGED <<variant, env, API_KEY, API_URL, proc, exitCode, stderr, registry>>

JsonSettles(i) == JsonSettlesWith(i, Bodies)

\* the remote stops answering: the promise slot i awaits never settles
RemoteHangs(i) ==
    /\ inv[i].pc \in {"fetch", "json"}
    /\ ~inv[i].hung
    /\ inv' = [inv EXCEPT ![i].hung = TRUE]
    /\ UNCHANGED <<variant, env, API_KEY, API_URL, proc, exitCode, stderr, registry>>

\* a handler that keeps the last answer of the remote for later requests
RetireCaching(i) ==
    /\ inv[i].pc = "done"
    /\ inv' = [inv EXCEPT ![i] = [Idle EXCEPT !.body = inv[i].body]]
    /\ UNCHANGED <<variant, env, API_KEY, API_URL, proc, exitCode, stderr, registry>>

\* the response has been handed to the transport; the context is discarded
Retire(i) ==
    /\ inv[i].pc = "done"
    /\ inv' = [inv EXCEPT ![i] = Idle]
    /\ UNCHANGED <<variant, env, API_KEY, API_URL, proc, exitCode, stderr, registry>>

\* no request is in flight
Quiet == \A j \in Slots : inv[j].pc = "idle"

\* the host sends one request at a time and waits for its response
Next ==
    \/ Startup
    \/ \E i \in Slots : Quiet /\ CallTool(i)
    \/ \E i \in Slots : Quiet /\ GetPromptRequest(i)
    \/ \E i \in Slots : Quiet /\ ReadResource(i)
    \/ \E i \in Slots : Quiet /\ ListTools(i)
    \/ \E i \in Slots : Quiet /\ ListPrompts(i)
    \/ \E i \in Slots : Quiet /\ ListResources(i)
    \/ \E i \in Slots : FetchSettles(i)
    \/ \E i \in Slots : JsonSettles(i)
    \/ \E i \in Slots : RemoteHangs(i)
    \/ \E i \in Slots : Retire(i)

Spec == Init /\ [][Next]_vars

\* The host pipelines its requests: it sends the next one while earlier ones
\* await the remote, and the remote answers in any order.  The requests and
\* the answers are a few of those above.
PipelinedRequests ==
    { Request("tools/call", "query_locality_data",
              Args(<< <<"query", JStr("parks")>>, <<"locality", JStr("nyc")>> >>)),
      Request("tools/call", "get_locality_schema",
              Args(<< <<"locality", JStr("nyc")>> >>)),
      Request("resources/read", "datagraph://usage/stats", Undefined) }

PipelinedOutcomes == {Response(200), Response(404), Rejected("fetch failed")}

PipelinedBodies == {"{\"results\":[1,2,3]}", "{\"error\":\"not found\"}"}

PipelinedInit ==
    /\ Init
    /\ variant = "v13"
    /\ env.DATAGRAPH_API_KEY = JStr("dgc_test_key")

PipelinedReceive(i) == \E req \in PipelinedRequests : Receive(i, req)

PipelinedFetchSettles(i) == FetchSettlesWith(i, PipelinedOutcomes)

PipelinedJsonSettles(i) == JsonSettlesWith(i, PipelinedBodies)

PipelinedNext ==
    \/ Startup
    \/ \E i \in Slots : PipelinedReceive(i)
    \/ \E i \in Slots : PipelinedFetchSettles(i)
    \/ \E i \in Slots : PipelinedJsonSettles(i)
    \/ \E i \in Slots : Retire(i)

PipelinedSpec == PipelinedInit /\ [][PipelinedNext]_vars

\* the event loop resumes a handler whose promise can settle; nothing makes
\* a remote that stopped answering answer
FairSpec ==
    /\ Spec
    /\ \A i \in Slots : WF_vars(FetchSettles(i))
    /\ \A i \in Slots : WF_vars(JsonSettles(i))

(***************************************************************************)
(* Properties.                                                             *)
(***************************************************************************)
StartsWith(s, prefix) ==
    Len(s) >= Len(prefix) /\ SubSeq(s, 1, Len(prefix)) = prefix

\* the envelope of a failed tool call: one text item "Error: ..." and the flag
ErrorEnvelope(text) ==
    [content |-> << [type |-> "text", text |-> text] >>, isError |-> TRUE]

\* the envelope of a successful tool call: one text item and no flag
PlainEnvelope(text) == [content |-> << [type |-> "text", text |-> text] >>]

IsErrorEnvelope(r) ==
    /\ DOMAIN r = {"content", "isError"}
    /\ r.isError = TRUE
    /\ Len(r.content) = 1
    /\ r.content[1].type = "text"
    /\ StartsWith(r.content[1].text, "Error: ")

ToolCalls == {i \in Slots : inv[i].req.method = "tools/call"}
PromptGets == {i \in Slots : inv[i].req.method = "prompts/get"}
ResourceReads == {i \in Slots : inv[i].req.method = "resources/read"}
Done(i) == inv[i].pc = "done"

\* the body read by slot i is the JSON text of document p
BodyIs(i, p) == inv[i].body = JStr(Stringify(p))

\* C1: a tool call whose name is not in the registry TOOLS returns (does not
\* throw) the error-flagged result "Error: Unknown tool: <name>" as soon as it
\* is dispatched, without any outbound HTTP call.
C1_UnknownTool ==
    \A i \in ToolCalls :
        inv[i].req.name \notin ToolNames(variant) =>
            /\ Done(i)
            /\ inv[i].outcome =
                  Return(ErrorEnvelope("Error: Unknown tool: " \o inv[i].req.name))
            /\ inv[i].out = << >>

C1_Witness ==
    \E i \in ToolCalls :
        /\ Done(i)
        /\ variant = "v12"
        /\ inv[i].req.name = "list_cities"

\* parameter k is missing from (or null in) the argument mapping
Omitted(args, k) ==
    ~CanReadProperty(args) \/ Get(args, k).t \in {"undefined", "null"}

\* some parameter the tool's descriptor lists in `required` is omitted
OmitsRequired(v, req) ==
    /\ req.name \in ToolNames(v)
    /\ \E n \in 1..Len(Descriptor(v, req.name).required) :
          Omitted(req.args, Descriptor(v, req.name).required[n])

\* C2: a call of a registered tool that omits a parameter listed in the
\* descriptor's `required` (or passes null for it) ends in an error result
\* and makes no outbound HTTP call.
C2_RequiredChecked ==
    \A i \in ToolCalls :
        OmitsRequired(variant, inv[i].req) =>
            /\ inv[i].out = << >>
            /\ Done(i)
            /\ inv[i].outcome.k = "return"
            /\ IsErrorEnvelope(inv[i].outcome.result)

\* C3: when the remote answers a tool call with a 2xx status and a JSON body
\* B, the call returns exactly one content item of type text whose text is B
\* pretty-printed with two spaces, and no error flag.
C3_SuccessEchoesBody ==
    \A i \in ToolCalls :
        (Done(i) /\ Ok(inv[i].status)) =>
            /\ \A p \in Payloads :
                  BodyIs(i, p) =>
                      inv[i].outcome = Return(PlainEnvelope(StringifyPretty(p, "")))
            /\ inv[i].body = JStr("{\"results\":[1,2,3]}") =>
                  inv[i].outcome = Return(PlainEnvelope(
                      "{\n  \"results\": [\n    1,\n    2,\n    3\n  ]\n}"))

C3_Witness ==
    \E i \in ToolCalls :
        /\ Done(i)
        /\ IsQuery(inv[i].req.name)
        /\ inv[i].status = 200
        /\ inv[i].body = JStr("{\"results\":[1,2,3]}")
        /\ inv[i].outcome.k = "return"

\* C4: when the remote answers the query tool with a non-2xx status and a
\* JSON body whose `error` field is a non-empty string M, the call returns the
\* error-flagged result "Error: M".
C4_QueryErrorField ==
    \A i \in ToolCalls :
        (Done(i) /\ IsQuery(inv[i].req.name) /\ inv[i].status # 0 /\ ~Ok(inv[i].status)) =>
            /\ \A p \in Payloads :
                  (BodyIs(i, p) /\ Get(p, "error").t = "str" /\ Get(p, "error").s # "") =>
                      inv[i].outcome =
                          Return(ErrorEnvelope("Error: " \o Get(p, "error").s))
            /\ (inv[i].status = 404 /\ inv[i].body = JStr("{\"error\":\"not found\"}")) =>
                  inv[i].outcome = Return(ErrorEnvelope("Error: not found"))

C4_Witness ==
    \E i \in ToolCalls :
        /\ Done(i)
        /\ IsQuery(inv[i].req.name)
        /\ inv[i].status = 404
        /\ inv[i].body = JStr("{\"error\":\"not found\"}")

\* a tool call that got a non-2xx response and has finished
Refused(i) == Done(i) /\ inv[i].status # 0 /\ ~Ok(inv[i].status)

\* the `error` field of the body slot i received (Undefined when the body is
\* no JSON or has no such field)
ErrorField(i) ==
    IF inv[i].body = Undefined THEN Undefined
    ELSE IF ParseJson(inv[i].body.s).k = "value"
         THEN Get(ParseJson(inv[i].body.s).value, "error")
         ELSE Undefined

StepFailed(i) ==
    \/ inv[i].req.name \notin ToolNames(variant)
    \/ inv[i].out = << >> /\ inv[i].req.name # "get_server_info"
    \/ inv[i].out # << >> /\ ~Ok(inv[i].status)
    \/ inv[i].body # Undefined /\ inv[i].body.s \in NotJson

\* C6: the tool handler never lets an exception escape: whatever the name,
\* the arguments and the remote outcome, a finished tool call has returned an
\* envelope, and when a step failed the envelope is one text item
\* "Error: ..." with the error flag set.
C6_ToolHandlerNeverThrows ==
    \A i \in ToolCalls :
        Done(i) =>
            /\ inv[i].outcome.k = "return"
            /\ StepFailed(i) => IsErrorEnvelope(inv[i].outcome.result)

C6_Witness ==
    \E i \in ToolCalls :
        /\ Done(i)
        /\ inv[i].req.args = Undefined
        /\ inv[i].req.name = "list_datasets"
        /\ inv[i].outcome.k = "return"

PassesValidation(v, req) ==
    /\ req.name \in ToolNames(v)
    /\ req.name # "get_server_info"
    /\ req.name \in {"get_usage_stats", "list_cities"} \/ CanReadProperty(req.args)
    /\ (v = "v13" /\ req.name \in {"query_locality_data", "get_locality_schema"}) =>
          Truthy(Get(req.args, "locality"))

\* C8: a tool call that passes local validation performs exactly one
\* outbound HTTP call, and no tool call ever performs more than one: after a
\* non-2xx response or a transport failure the remote is not called again.
C8_OneOutboundCall ==
    \A i \in ToolCalls :
        /\ Len(inv[i].out) <= 1
        /\ PassesValidation(variant, inv[i].req) => Len(inv[i].out) = 1
        /\ (Done(i) /\ Len(inv[i].out) = 1) => PassesValidation(variant, inv[i].req)

C8_Witness ==
    \E i \in ToolCalls :
        /\ Done(i)
        /\ inv[i].status = 500
        /\ Len(inv[i].out) = 1
        /\ inv[i].req.name = "get_usage_stats"

\* the prompt request fails: its name is no registered prompt, or an argument
\* the prompt's descriptor marks required is absent
PromptFails(req) ==
    \/ req.name \notin PromptNames
    \/ \E n \in 1..Len(PROMPTS) :
          /\ PROMPTS[n].name = req.name
          /\ \E a \in 1..Len(PROMPTS[n].arguments) :
                /\ PROMPTS[n].arguments[a].required
                /\ OptGet(req.args, PROMPTS[n].arguments[a].name) = Undefined

\* C9 as stated: a failing prompt request is caught at the dispatch boundary
\* and returned as a normal envelope carrying an "Error: ..." text and an
\* error flag, like a failing tool call; it is not raised to the transport.
C9_PromptFailureReturned ==
    \A i \in PromptGets :
        (Done(i) /\ PromptFails(inv[i].req)) =>
            /\ inv[i].outcome.k = "return"
            /\ IsErrorEnvelope(inv[i].outcome.result)

\* C9 (amended): a failing prompt request is not caught: the handler throws
\* to the transport, with the message "Unknown prompt: <name>" for a name not
\* in the registry and "<argument> argument is required..." for the first
\* missing required argument, and returns no envelope.
C9_PromptFailureThrown ==
    \A i \in PromptGets :
        (Done(i) /\ PromptFails(inv[i].req)) =>
            LET name == inv[i].req.name
                args == inv[i].req.args
            IN  /\ inv[i].outcome.k = "throw"
                /\ inv[i].out = << >>
                /\ name \notin PromptNames =>
                      inv[i].outcome.message = "Unknown prompt: " \o name
                /\ name = "analyze_gosr_dataset" =>
                      inv[i].outcome.message = "dataset argument is required"
                /\ (name \in {"explore_locality_data", "cypher_query_builder"}
                        /\ OptGet(args, "locality") = Undefined) =>
                      StartsWith(inv[i].outcome.message, "locality argument is required")
                /\ (name = "cypher_query_builder" /\ Truthy(OptGet(args, "locality"))) =>
                      inv[i].outcome.message = "user_question argument is required"

C9_Witness ==
    \E i \in PromptGets :
        /\ Done(i)
        /\ inv[i].req.name = "cypher_query_builder"
        /\ inv[i].req.args = Args(<< <<"locality", JStr("nyc")>> >>)
        /\ inv[i].outcome.k = "throw"

\* the resource read in slot i failed: the uri is not registered, the fetch
\* was rejected, the status was not 2xx, or the body was no JSON
ReadFailed(i) ==
    \/ inv[i].req.name \notin ResourceUris
    \/ inv[i].out # << >> /\ ~Ok(inv[i].status)
    \/ inv[i].body # Undefined /\ inv[i].body.s \in NotJson

\* C10: a resource read never returns an error-flagged envelope: for a uri
\* that is not exactly a registered one, and for any remote or transport
\* failure, the handler throws "Failed to read resource <uri>: <cause>" (cause
\* "Unknown resource: <uri>" for an unregistered uri, and then no outbound
\* call is made); otherwise it returns the contents.
C10_ResourceFailureThrown ==
    \A i \in ResourceReads :
        LET uri == inv[i].req.name IN
        /\ uri \notin ResourceUris =>
              /\ Done(i)
              /\ inv[i].out = << >>
              /\ inv[i].outcome =
                    Throw("Failed to read resource " \o uri \o ": Unknown resource: " \o uri)
        /\ Done(i) =>
              IF ReadFailed(i)
              THEN /\ inv[i].outcome.k = "throw"
                   /\ StartsWith(inv[i].outcome.message,
                                 "Failed to read resource " \o uri \o ": ")
                   /\ Len(inv[i].outcome.message) > Len("Failed to read resource " \o uri \o ": ")
              ELSE /\ inv[i].outcome.k = "return"
                   /\ DOMAIN inv[i].outcome.result = {"contents"}
        /\ (Done(i) /\ inv[i].out # << >> /\ inv[i].status = 0) =>
              inv[i].outcome.message = "Failed to read resource " \o uri \o ": fetch failed"

C10_Witness ==
    \E i \in ResourceReads :
        /\ Done(i)
        /\ inv[i].req.name = "datagraph://schema/sf"
        /\ inv[i].outcome.k = "throw"


\* the required argument a of the registered prompt n is absent from the request
RequiredArgumentAbsent(req, n, a) ==
    /\ PROMPTS[n].name = req.name
    /\ PROMPTS[n].arguments[a].required
    /\ OptGet(req.args, PROMPTS[n].arguments[a].name) = Undefined

\* C11: for every prompt and every argument its descriptor marks required, a
\* request without that argument fails with the error "<argument> argument is
\* required" naming a required argument that is absent, and produces no
\* message: the check precedes the interpolation of the template.
C11_MissingArgumentBeforeTemplate ==
    \A i \in PromptGets :
        \A n \in 1..Len(PROMPTS) :
            \A a \in 1..Len(PROMPTS[n].arguments) :
                (Done(i) /\ RequiredArgumentAbsent(inv[i].req, n, a)) =>
                    /\ inv[i].outcome.k = "throw"
                    /\ \E b \in 1..Len(PROMPTS[n].arguments) :
                          /\ RequiredArgumentAbsent(inv[i].req, n, b)
                          /\ StartsWith(inv[i].outcome.message,
                                        PROMPTS[n].arguments[b].name
                                            \o " argument is required")

C11_Witness ==
    \E i \in PromptGets :
        /\ Done(i)
        /\ inv[i].req.name = "cypher_query_builder"
        /\ OptGet(inv[i].req.args, "locality") = JStr("nyc")
        /\ OptGet(inv[i].req.args, "user_question") = Undefined
        /\ inv[i].outcome = Throw("user_question argument is required")


\* the analyze_gosr_dataset template as part_001:309-321 prints it, for a
\* dataset and a focus given as text
AnalyzeGosrText(dataset, focus) ==
    "I want to analyze the \"" \o dataset \o "\" GOSR dataset, focusing on: "
    \o focus \o ".\n\nPlease help me:\n"
    \o "1. List available GOSR datasets to confirm this one exists\n"
    \o "2. Get the schema to understand the data structure\n"
    \o "3. Query for relevant Goals, Obstacles, Solutions, and Resources\n"
    \o "4. Summarize key insights and patterns\n\n"
    \o "Use the GOSR framework (gosr.ai) to structure the analysis."

\* the result is exactly one user-role text message with this text
OneUserMessage(outcome, text) ==
    /\ outcome.k = "return"
    /\ DOMAIN outcome.result = {"messages"}
    /\ Len(outcome.result.messages) = 1
    /\ outcome.result.messages[1] =
          [role |-> "user", content |-> [type |-> "text", text |-> text]]

\* prompts/get of analyze_gosr_dataset with a dataset, served
AnalyzeServed(i) ==
    /\ Done(i)
    /\ inv[i].req.name = "analyze_gosr_dataset"
    /\ OptGet(inv[i].req.args, "dataset") = JStr("Un-Lonely NYC")

\* C12 as stated: analyze_gosr_dataset returns exactly one user-role text
\* message equal to the template; an absent focus is rendered as "general
\* overview" and a supplied focus is rendered as supplied.
C12_FocusRenderedAsSupplied ==
    \A i \in PromptGets :
        AnalyzeServed(i) =>
            LET focus == OptGet(inv[i].req.args, "focus") IN
            OneUserMessage(inv[i].outcome,
                AnalyzeGosrText("Un-Lonely NYC",
                    IF focus = Undefined THEN "general overview" ELSE focus.s))

\* C12 (amended): a prompt requested with its required arguments returns
\* exactly one user-role text message equal to the template; for
\* analyze_gosr_dataset a focus that is absent or empty is rendered as
\* "general overview", and a non-empty focus is rendered as supplied.
C12_EmptyFocusDefaulted ==
    \A i \in PromptGets :
        /\ AnalyzeServed(i) =>
              LET focus == OptGet(inv[i].req.args, "focus") IN
              OneUserMessage(inv[i].outcome,
                  AnalyzeGosrText("Un-Lonely NYC",
                      IF focus \in {Undefined, JStr("")} THEN "general overview"
                      ELSE focus.s))
        /\ (Done(i) /\ inv[i].req.name = "explore_locality_data"
                /\ inv[i].req.args = Args(<< <<"locality", JStr("nyc")>> >>)) =>
              OneUserMessage(inv[i].outcome,
                  "I want to explore urban data for nyc. Let's start by:\n"
                  \o "1. Listing available localities and their datasets\n"
                  \o "2. Getting the graph schema for nyc\n"
                  \o "3. Understanding what kinds of questions I can ask\n\n"
                  \o "Please guide me through this process.")
        /\ (Done(i) /\ inv[i].req.name = "cypher_query_builder"
                /\ OptGet(inv[i].req.args, "locality") = JStr("kc")) =>
              OneUserMessage(inv[i].outcome,
                  "I want to query kc data to answer: \"Where are the parks?\"\n\n"
                  \o "Please help me:\n"
                  \o "1. Get the graph schema for kc\n"
                  \o "2. Understand what node labels and relationships are available\n"
                  \o "3. Generate an appropriate Cypher query based on my question\n"
                  \o "4. Execute the query and interpret the results\n\n"
                  \o "Remember to include LIMIT clauses and ensure read-only operations.")

C12_Witness ==
    \E i \in PromptGets :
        /\ AnalyzeServed(i)
        /\ OptGet(inv[i].req.args, "focus") = JStr("")
        /\ inv[i].outcome.k = "return"


\* the slots holding a list request of the given method
Lists(method) == {i \in Slots : inv[i].req.method = method}

\* C13: whatever requests were served before, tools/list, prompts/list and
\* resources/list each return the full registry of the build, unfiltered, the
\* same descriptors in the same order on every call: the registries a
\* running process holds are the ones loaded at startup, and every list
\* response is that registry.
C13_ListsReturnFullRegistry ==
    /\ proc = "running" => registry = Loaded(variant)
    /\ \A i \in Lists("tools/list") :
          Done(i) => inv[i].outcome = Return([tools |-> TOOLS(variant)])
    /\ \A i \in Lists("prompts/list") :
          Done(i) => inv[i].outcome = Return([prompts |-> PROMPTS])
    /\ \A i \in Lists("resources/list") :
          Done(i) => inv[i].outcome = Return([resources |-> RESOURCES])

C13_Witness ==
    \E i \in Lists("tools/list") :
        /\ Done(i)
        /\ variant = "v13"
        /\ Len(inv[i].outcome.result.tools) = 5
        /\ inv[i].outcome.result.tools[2].name = "get_locality_schema"


\* no two entries of the sequence of descriptors carry the same key
UniqueBy(descriptors, key) ==
    \A m, n \in 1..Len(descriptors) :
        descriptors[m][key] = descriptors[n][key] => m = n

\* the outcome of an unknown tool, prompt or resource
IsUnknown(i) ==
    LET name == inv[i].req.name IN
    CASE inv[i].req.method = "tools/call" ->
            inv[i].outcome = Return(ErrorEnvelope("Error: Unknown tool: " \o name))
      [] inv[i].req.method = "prompts/get" ->
            inv[i].outcome = Throw("Unknown prompt: " \o name)
      [] OTHER ->
            inv[i].outcome = Throw("Failed to read resource " \o name
                                   \o ": Unknown resource: " \o name)

\* names that differ from a registered one in letter case or by extra characters
NearMisses ==
    {"Get_Usage_Stats", "query_locality_data ", "Analyze_Gosr_Dataset",
     "DATAGRAPH://usage/stats", "datagraph://cities/list/", "datagraph://schema"}

\* C14: within each registry no two descriptors share a name (uri for
\* resources), and dispatch is by exact, case-sensitive match: a request is
\* treated as unknown exactly when its name is not literally a registered
\* one, in particular when it differs from one in letter case or by extra
\* or missing characters.
C14_UniqueNamesExactDispatch ==
    /\ UniqueBy(registry.tools, "name")
    /\ UniqueBy(registry.prompts, "name")
    /\ UniqueBy(registry.resources, "uri")
    /\ \A i \in ToolCalls \cup PromptGets \cup ResourceReads :
          Done(i) =>
              LET registered ==
                      CASE i \in ToolCalls -> ToolNames(variant)
                        [] i \in PromptGets -> PromptNames
                        [] OTHER -> ResourceUris
              IN  /\ IsUnknown(i) <=> inv[i].req.name \notin registered
                  /\ inv[i].req.name \in NearMisses =>
                        IsUnknown(i) /\ inv[i].out = << >>

C14_Witness ==
    \E i \in ResourceReads :
        /\ Done(i)
        /\ inv[i].req.name = "datagraph://cities/list/"
        /\ IsUnknown(i)
        /\ Len(registry.resources) = 5


\* C15: when DATAGRAPH_API_KEY is unset or empty at startup, the process
\* writes a diagnostic to the error stream and exits with a non-zero status;
\* it never connects the stdio transport (never announces itself running),
\* never loads a registry, never serves a request and never makes an
\* outbound call.
C15_NoCredentialNoService ==
    ~Truthy(env.DATAGRAPH_API_KEY) =>
        /\ proc \in {"starting", "exited"}
        /\ \A i \in Slots : inv[i] = Idle
        /\ registry = NotLoaded
        /\ proc = "starting" => stderr = << >> /\ exitCode = -1
        /\ proc = "exited" =>
              /\ exitCode > 0
              /\ stderr = << "Error: DATAGRAPH_API_KEY environment variable is required" >>

C15_Witness ==
    /\ env.DATAGRAPH_API_KEY = JStr("")
    /\ proc = "exited"
    /\ exitCode = 1


\* <base>: the configured base URL, or the default when none is configured
Base ==
    IF env.DATAGRAPH_API_URL \in {Undefined, JStr("")}
    THEN "https://api.datagraph.city"
    ELSE env.DATAGRAPH_API_URL.s

\* the locality a tool call names: `locality` in the 1.3.0 build, `city`
\* (default 'nyc') in the others
LocalityOf(i) ==
    IF variant = "v13" THEN Get(inv[i].req.args, "locality")
    ELSE DefaultTo(Get(inv[i].req.args, "city"), JStr("nyc"))

\* C16: the method and path of a tool's outbound request are fixed by the
\* tool alone: the schema tool issues GET <base>/api/<locality>/schema, the
\* query tool POST <base>/api/<locality>/query, get_usage_stats GET
\* <base>/usage, and get_server_info issues no outbound request; <base> is the
\* configured base URL or https://api.datagraph.city.
C16_FixedMethodAndPath ==
    \A i \in ToolCalls :
        LET name == inv[i].req.name
            named == CanReadProperty(inv[i].req.args) /\ Truthy(LocalityOf(i))
        IN  /\ name = "get_server_info" => inv[i].out = << >>
            /\ (name \in ToolNames(variant)
                    /\ (name = "get_usage_stats" \/ (IsSchema(name) /\ named)
                            \/ (IsQuery(name) /\ named))) =>
                  Len(inv[i].out) = 1
            /\ (inv[i].out # << >> /\ IsSchema(name)) =>
                  /\ inv[i].out[1].method = "GET"
                  /\ inv[i].out[1].url =
                        Base \o "/api/" \o JsString(LocalityOf(i)) \o "/schema"
            /\ (inv[i].out # << >> /\ IsQuery(name)) =>
                  /\ inv[i].out[1].method = "POST"
                  /\ inv[i].out[1].url =
                        Base \o "/api/" \o JsString(LocalityOf(i)) \o "/query"
            /\ (inv[i].out # << >> /\ name = "get_usage_stats") =>
                  /\ inv[i].out[1].method = "GET"
                  /\ inv[i].out[1].url = Base \o "/usage"

C16_Witness ==
    \E i \in ToolCalls :
        /\ inv[i].req.name = "get_locality_schema"
        /\ env.DATAGRAPH_API_URL = Undefined
        /\ Len(inv[i].out) = 1
        /\ inv[i].out[1].url = "https://api.datagraph.city/api/nyc/schema"


\* encodeURIComponent of the filters asked, written out
Encoded(s) ==
    CASE s = "nyc/../../usage?x=1#" -> "nyc%2F..%2F..%2Fusage%3Fx%3D1%23"
      [] OTHER -> s

\* the list_datasets calls that reached their fetch
DatasetLists ==
    {i \in ToolCalls : inv[i].req.name = "list_datasets" /\ inv[i].out # << >>}

QueryPosts == {i \in ToolCalls : IsQuery(inv[i].req.name) /\ inv[i].out # << >>}

\* C18 as stated: the body POSTed by the query tool carries the supplied
\* query, the supplied category if any, the supplied limit (10 when omitted),
\* and each of cypher_query and cypher_params whenever that argument was
\* supplied; no supplied field is dropped and no other field is added.
C18_BodyCarriesEverySuppliedField ==
    \A i \in QueryPosts :
        LET args == inv[i].req.args IN
        inv[i].out[1].body =
            JStr(Stringify(JObj(<< <<"query", Get(args, "query")>>,
                                   <<"category", Get(args, "category")>>,
                                   <<"limit", DefaultTo(Get(args, "limit"), JNum(10))>>,
                                   <<"cypher_query", Get(args, "cypher_query")>>,
                                   <<"cypher_params", Get(args, "cypher_params")>> >>)))

\* C18 (amended): the body carries the supplied query, the supplied category
\* if any, the supplied limit (10 when omitted, else exactly the supplied
\* value, 0 included), cypher_query when it is supplied and not empty, and
\* cypher_params only when a non-empty cypher_query accompanies it:
\* cypher_params supplied without cypher_query is dropped.  No other field is
\* added.
C18_ParamsOnlyWithCypherQuery ==
    \A i \in QueryPosts :
        LET args == inv[i].req.args
            cypher_query == Get(args, "cypher_query")
            cypher_params == Get(args, "cypher_params")
        IN  /\ inv[i].out[1].body =
                  JStr(Stringify(JObj(
                      << <<"query", Get(args, "query")>>,
                         <<"category", Get(args, "category")>>,
                         <<"limit", DefaultTo(Get(args, "limit"), JNum(10))>>,
                         <<"cypher_query",
                           IF Truthy(cypher_query) THEN cypher_query ELSE Undefined>>,
                         <<"cypher_params",
                           IF Truthy(cypher_query) /\ Truthy(cypher_params)
                           THEN cypher_params ELSE Undefined>> >>)))
            /\ (Get(args, "cypher_query") = JStr("MATCH (n) RETURN n LIMIT 5")) =>
                  inv[i].out[1].body.s =
                      "{\"query\":\"permits\",\"category\":\"transit\",\"limit\":5,"
                      \o "\"cypher_query\":\"MATCH (n) RETURN n LIMIT 5\","
                      \o "\"cypher_params\":{\"borough\":\"M\"}}"
            /\ (Get(args, "limit") = JNum(0)) =>
                  inv[i].out[1].body.s = "{\"query\":\"permits\",\"limit\":0}"
            /\ (args = Args(<< <<"locality", JStr("nyc")>> >>)) =>
                  inv[i].out[1].body.s = "{\"limit\":10}"

C18_Witness ==
    \E i \in QueryPosts :
        /\ Get(inv[i].req.args, "cypher_params") # Undefined
        /\ Get(inv[i].req.args, "cypher_query") = Undefined
        /\ inv[i].out[1].body = JStr("{\"query\":\"permits\",\"limit\":0}")


\* the header names and the headers of an outbound request
HeaderNames(r) == {r.headers[j][1] : j \in 1..Len(r.headers)}
Headers(r) == {r.headers[j] : j \in 1..Len(r.headers)}

\* C19: every outbound call of a build other than 1.0.0, tool call or
\* resource read, carries Authorization: Bearer <credential> with the
\* credential the environment held at startup and no X-API-Key header; every
\* outbound call of the 1.0.0 build carries X-API-Key: <credential> and no
\* Authorization header.  No build mixes the two schemes.
C19_OneAuthScheme ==
    \A i \in Slots :
        \A k \in 1..Len(inv[i].out) :
            LET r == inv[i].out[k]
                credential == env.DATAGRAPH_API_KEY.s
            IN  IF variant = "v10"
                THEN /\ <<"X-API-Key", credential>> \in Headers(r)
                     /\ "Authorization" \notin HeaderNames(r)
                ELSE /\ <<"Authorization", "Bearer " \o credential>> \in Headers(r)
                     /\ "X-API-Key" \notin HeaderNames(r)

C19_Witness ==
    \E i \in ResourceReads :
        /\ Len(inv[i].out) = 1
        /\ inv[i].out[1].headers = << <<"Authorization", "Bearer dgc_test_key">> >>


\* the one contents item a resource read returns for the uri and the text
Contents(uri, text) ==
    [contents |-> << [uri |-> uri, mimeType |-> "application/json", text |-> text] >>]

\* the endpoint of each registered resource uri, as spec section 6 lists it
Endpoint(uri) ==
    CASE uri = "datagraph://cities/list" -> "/cities"
      [] uri = "datagraph://datasets/gosr" -> "/datasets"
      [] uri = "datagraph://usage/stats" -> "/usage"
      [] uri = "datagraph://schema/nyc" -> "/api/nyc/schema"
      [] uri = "datagraph://schema/kc" -> "/api/kc/schema"

\* C20: a read of a registered resource uri issues exactly one GET to the one
\* endpoint fixed for that uri (/cities, /datasets, /usage, and
\* /api/<x>/schema with <x> the last path component of the uri), and on a 2xx
\* answer with JSON body B returns exactly one contents item echoing the
\* requested uri, with media type application/json and text the
\* pretty-printed B.
C20_ResourceEndpointAndContents ==
    \A i \in ResourceReads :
        inv[i].req.name \in ResourceUris =>
            /\ Len(inv[i].out) = 1
            /\ inv[i].out[1].method = "GET"
            /\ inv[i].out[1].url = Base \o Endpoint(inv[i].req.name)
            /\ inv[i].out[1].body = Undefined
            /\ (Done(i) /\ Ok(inv[i].status)) =>
                  /\ \A p \in Payloads :
                        BodyIs(i, p) =>
                            inv[i].outcome =
                                Return(Contents(inv[i].req.name, StringifyPretty(p, "")))
                  /\ inv[i].body = JStr("{\"error\":\"not found\"}") =>
                        inv[i].outcome =
                            Return(Contents(inv[i].req.name,
                                            "{\n  \"error\": \"not found\"\n}"))

C20_Witness ==
    \E i \in ResourceReads :
        /\ Done(i)
        /\ inv[i].req.name = "datagraph://schema/kc"
        /\ inv[i].status = 201
        /\ inv[i].out[1].url = "http://localhost:8000/api/kc/schema"
        /\ inv[i].outcome.k = "return"
        /\ Len(inv[i].outcome.result.contents) = 1
        /\ inv[i].outcome.result.contents[1].uri = "datagraph://schema/kc"


\* C21: no request changes process state: in a running process, whatever
\* list, tool, prompt and resource requests were served or failed before, the
\* credential and the base URL are the values read from the environment at
\* startup, the three registries are the ones the module loaded, nothing was
\* written to the error stream after the startup line, and a request context
\* whose request is finished holds no argument value and no remote result.
C21_RequestsLeaveProcessState ==
    proc = "running" =>
        /\ API_KEY = env.DATAGRAPH_API_KEY
        /\ API_URL = JStr(Base)
        /\ registry = Loaded(variant)
        /\ stderr = << "DataGraph MCP server running on stdio" >>
        /\ exitCode = -1
        /\ \A i \in Slots :
              inv[i].pc = "idle" =>
                  /\ inv[i].req = NoRequest
                  /\ inv[i].out = << >>
                  /\ inv[i].body = Undefined
                  /\ inv[i].status = 0
                  /\ inv[i].outcome = NoOutcome

C21_Witness ==
    \E i \in ToolCalls :
        /\ Done(i)
        /\ inv[i].req.name = "query_locality_data"
        /\ inv[i].status = 500
        /\ inv[i].body # Undefined
        /\ IsErrorEnvelope(inv[i].outcome.result)
        /\ API_KEY = JStr("dgc_test_key")
        /\ registry.tools = TOOLS("v13")


\* the response of a request run alone, given the remote's answer to its own
\* call: the status of the response (0 for a failed call) and the body read
RunAlone(req, status, body) ==
    LET first == Start(variant, req) IN
    IF first.k # "fetch" THEN first
    ELSE LET settled == IF status = 0 THEN Rejected("fetch failed")
                        ELSE Response(status)
             second == AfterFetch(req, settled)
         IN  IF second.k # "json" THEN second
             ELSE AfterJson(req, status, ParseJson(body.s))

\* C22: invocations are independent under pipelining: whatever other
\* invocations are in flight and in whatever order the remote answers, the
\* outbound request of an invocation is the one its own request determines,
\* and its response is the one it would produce alone from its own request
\* and the remote's answer to its own call.
C22_PipelinedInvocationsIndependent ==
    \A i \in Slots :
        LET req == inv[i].req IN
        /\ inv[i].pc \in {"fetch", "json", "done"} =>
              /\ inv[i].out = << Start(variant, req).request >>
              /\ inv[i].out[1].url =
                    Base \o (CASE req.name = "query_locality_data" -> "/api/nyc/query"
                               [] req.name = "get_locality_schema" -> "/api/nyc/schema"
                               [] OTHER -> "/usage")
        /\ Done(i) => inv[i].outcome = RunAlone(req, inv[i].status, inv[i].body)
        /\ (Done(i) /\ req.method = "resources/read" /\ inv[i].status = 200
                /\ inv[i].body = JStr("{\"error\":\"not found\"}")) =>
              inv[i].outcome =
                  Return(Contents("datagraph://usage/stats",
                                  "{\n  \"error\": \"not found\"\n}"))

C22_Witness ==
    \E i, j \in Slots :
        /\ Done(i) /\ Done(j)
        /\ inv[i].req.name = "query_locality_data"
        /\ inv[j].req.method = "resources/read"
        /\ inv[i].status = 404
        /\ inv[j].status = 200
        /\ inv[i].body # inv[j].body


\* the calls of the current server's query tool that supply only `query`
QueryOnlyCalls ==
    {i \in ToolCalls : /\ variant = "v13"
                       /\ inv[i].req.name = "query_locality_data"
                       /\ inv[i].req.args = Args(<< <<"query", JStr("subway stations")>> >>)}

WithoutCity ==
    {i \in ToolCalls : /\ variant # "v13"
                       /\ CanReadProperty(inv[i].req.args)
                       /\ Get(inv[i].req.args, "city") = Undefined}

OrderedWithinInvocation ==
    \A i \in ToolCalls :
        /\ inv[i].pc \in {"fetch", "json"} =>
              inv[i].outcome = NoOutcome /\ Len(inv[i].out) = 1
        /\ ~PassesValidation(variant, inv[i].req) =>
              inv[i].out = << >> /\ Done(i)
        /\ (Done(i) /\ inv[i].out # << >>) =>
              \/ inv[i].status # 0
              \/ inv[i].outcome = Return(ErrorEnvelope("Error: fetch failed"))

\* a response appears in a step that either ran the handler from the request
\* to its end without a call, or resumed it after its call resolved
RespondsAfterResolution ==
    \A i \in Slots :
        (inv[i].pc # "done" /\ inv'[i].pc = "done") =>
            \/ inv[i].pc = "idle" /\ inv'[i].out = << >>
            \/ inv[i].pc \in {"fetch", "json"} /\ ~inv[i].hung /\ inv'[i].out = inv[i].out

\* C25: within one tool invocation the steps are strictly ordered: the local
\* argument check completes before the outbound call is issued, and the
\* call has resolved (response or failure) before any part of the response
\* is produced; no response is emitted while the call is pending.
C25_CheckThenCallThenRespond ==
    [](OrderedWithinInvocation) /\ [][RespondsAfterResolution]_vars

C25_Witness ==
    \E i \in ToolCalls :
        /\ Done(i)
        /\ inv[i].req.name = "get_locality_schema"
        /\ Len(inv[i].out) = 1
        /\ inv[i].status = 404
        /\ inv[i].outcome = Return(ErrorEnvelope("Error: Failed to fetch schema"))


\* C26 as stated: the outbound call is the one suspension point of an
\* invocation: once its call has resolved with a response, the handler runs
\* to its result without yielding, so no other invocation takes a step
\* between the response arriving and the result being returned.
C26_OneSuspensionPoint ==
    [][\A i, j \in Slots :
          (i # j /\ inv[i].pc = "json") => inv'[j] = inv[j]]_vars

\* the places an invocation moves between in one step of its handler
HandlerStep(from, to) ==
    \/ from = "idle" /\ to \in {"fetch", "done"}
    \/ from = "fetch" /\ to \in {"json", "done"}
    \/ from = "json" /\ to = "done"
    \/ from = "done" /\ to = "idle"

\* C26 (amended): an invocation has two suspension points, `await fetch(...)`
\* and `await response.json()`, passed in this order; between the request and
\* the fetch, between the response arriving and the body read being awaited,
\* and between the body being read and the result, the handler runs without
\* yielding: every step runs one handler from one of these points to the
\* next, and other invocations step only while it waits at one of the two.
C26_TwoSuspensionPoints ==
    /\ [](\A i \in Slots :
            /\ inv[i].pc \in {"idle", "fetch", "json", "done"}
            /\ inv[i].pc = "json" => inv[i].status # 0 /\ Len(inv[i].out) = 1)
    /\ [][\A i \in Slots :
            inv'[i] # inv[i] =>
                /\ HandlerStep(inv[i].pc, inv'[i].pc)
                /\ \A j \in Slots \ {i} : inv'[j] = inv[j]]_vars

C26_Witness ==
    \E i, j \in Slots :
        /\ inv[i].pc = "json"
        /\ inv[i].req.name = "query_locality_data"
        /\ inv[i].status = 404
        /\ inv[j].pc = "fetch"
        /\ inv[j].req.name = "get_locality_schema"


\* the calls of a tool without required parameters made with no `arguments`
WithoutArguments ==
    {i \in ToolCalls : /\ inv[i].req.args = Undefined
                       /\ inv[i].req.name \in ToolNames(variant)
                       /\ inv[i].req.name \in {"list_datasets", "get_usage_stats",
                                               "get_server_info"}}

\* C27: a tool that has no required parameters, invoked with no argument
\* mapping at all, behaves as with an empty mapping: get_server_info answers
\* locally, get_usage_stats issues GET <base>/usage, list_datasets issues GET
\* <base>/datasets, and none of them ends in an error result for the lack of
\* arguments.
C27_AbsentArgumentsAccepted ==
    \A i \in WithoutArguments :
        LET name == inv[i].req.name IN
        /\ name = "get_server_info" =>
              Done(i) /\ ~IsErrorEnvelope(inv[i].outcome.result)
        /\ name = "get_usage_stats" =>
              Len(inv[i].out) = 1 /\ inv[i].out[1].url = Base \o "/usage"
        /\ name = "list_datasets" =>
              Len(inv[i].out) = 1 /\ inv[i].out[1].url = Base \o "/datasets"


\* the result carries the error flag
Flagged(r) == "isError" \in DOMAIN r /\ r.isError

\* C28: in every tool-call result the error flag and the text agree: the
\* result has exactly one text item, and isError is set if and only if that
\* text begins with "Error: "; a 2xx answer with a JSON body, whatever value
\* it is (a JSON string starting with Error: included), yields an unflagged
\* result whose text does not begin with "Error: ".
C28_ErrorFlagAgreesWithText ==
    \A i \in ToolCalls :
        Done(i) =>
            /\ inv[i].outcome.k = "return"
            /\ Len(inv[i].outcome.result.content) = 1
            /\ inv[i].outcome.result.content[1].type = "text"
            /\ Flagged(inv[i].outcome.result)
                  <=> StartsWith(inv[i].outcome.result.content[1].text, "Error: ")
            /\ (Ok(inv[i].status) /\ \E p \in Payloads : BodyIs(i, p)) =>
                  ~Flagged(inv[i].outcome.result)

C28_Witness ==
    \E i \in ToolCalls :
        /\ Done(i)
        /\ inv[i].status = 200
        /\ inv[i].body = JStr("\"Error: boom\"")
        /\ inv[i].outcome = Return(PlainEnvelope("\"Error: boom\""))


\* the first place of the character ch in s, 0 when it has none
RECURSIVE IndexFrom(_, _, _)
IndexFrom(s, ch, n) ==
    IF n > Len(s) THEN 0
    ELSE IF SubSeq(s, n, n) = ch THEN n
    ELSE IndexFrom(s, ch, n + 1)

IndexOf(s, ch) == IndexFrom(s, ch, 1)

\* s cut before the first ch, and s after it
Before(s, ch) == IF IndexOf(s, ch) = 0 THEN s ELSE SubSeq(s, 1, IndexOf(s, ch) - 1)
After(s, ch) == IF IndexOf(s, ch) = 0 THEN "" ELSE SubSeq(s, IndexOf(s, ch) + 1, Len(s))

\* the segments of a path: the pieces between its slashes
RECURSIVE Segments(_)
Segments(path) ==
    IF IndexOf(path, "/") = 0 THEN << path >>
    ELSE << Before(path, "/") >> \o Segments(After(path, "/"))

\* the segments with "." dropped and ".." taking back the segment before it
RECURSIVE RemoveDotSegments(_, _)
RemoveDotSegments(segments, kept) ==
    IF segments = << >> THEN kept
    ELSE LET s == Head(segments) IN
         RemoveDotSegments(Tail(segments),
            CASE s = "." -> kept
              [] s = ".." -> IF kept = << >> THEN kept ELSE SubSeq(kept, 1, Len(kept) - 1)
              [] OTHER -> Append(kept, s))

\* what the runtime requests for the URL given to fetch: the fragment is not
\* sent, the query starts at the first "?", and the path has its dot segments
\* removed
RequestTarget(url) ==
    LET sent == Before(url, "#")
        afterScheme == SubSeq(sent, IndexOf(sent, ":") + 3, Len(sent))
        pathAndQuery == After(afterScheme, "/")
    IN  [segments |-> RemoveDotSegments(Segments(Before(pathAndQuery, "?")), << >>),
         query |-> After(pathAndQuery, "?")]

\* the calls of the current server's schema and query tools that were issued
LocalityCalls ==
    {i \in ToolCalls : /\ variant = "v13"
                       /\ inv[i].req.name \in {"get_locality_schema", "query_locality_data"}
                       /\ inv[i].out # << >>}

\* C29: for every locality string s given to get_locality_schema or
\* query_locality_data the request reaches only that tool's endpoint: its
\* path is /api/<s>/schema (resp. /api/<s>/query) with s as one path segment,
\* and it carries no query string, also when s contains "/", "?", "#" or "..".
C29_LocalityStaysOnePathSegment ==
    \A i \in LocalityCalls :
        LET target == RequestTarget(inv[i].out[1].url)
            s == Get(inv[i].req.args, "locality").s
        IN  /\ target.segments =
                  << "api", s, IF inv[i].req.name = "get_locality_schema"
                               THEN "schema" ELSE "query" >>
            /\ target.query = ""


\* the names tools/list, prompts/list and resources/list return
Listed(kind) ==
    CASE kind = "tools" -> {registry.tools[k].name : k \in 1..Len(registry.tools)}
      [] kind = "prompts" -> {registry.prompts[k].name : k \in 1..Len(registry.prompts)}
      [] OTHER -> {registry.resources[k].uri : k \in 1..Len(registry.resources)}

\* C30: in every build the registry and the dispatcher agree: the names
\* tools/list returns are the case labels of the tool switch, and a finished
\* tool call, prompt request or resource read is answered as unknown if and
\* only if its name is not among the names its list request returns; in the
\* build that removed list_cities the name is not listed and calling it
\* yields the unknown-tool error.
C30_RegistryAgreesWithDispatcher ==
    /\ proc = "running" => Listed("tools") = SwitchCases(variant)
    /\ \A i \in Lists("tools/list") :
          Done(i) =>
              {inv[i].outcome.result.tools[k].name :
                  k \in 1..Len(inv[i].outcome.result.tools)} = SwitchCases(variant)
    /\ \A i \in ToolCalls :
          Done(i) => (inv[i].req.name \in Listed("tools") <=> ~IsUnknown(i))
    /\ \A i \in PromptGets :
          Done(i) => (inv[i].req.name \in Listed("prompts") <=> ~IsUnknown(i))
    /\ \A i \in ResourceReads :
          Done(i) => (inv[i].req.name \in Listed("resources") <=> ~IsUnknown(i))
    /\ (variant = "v12" /\ proc = "running") =>
          /\ "list_cities" \notin Listed("tools")
          /\ \A i \in ToolCalls :
                inv[i].req.name = "list_cities" => Done(i) /\ IsUnknown(i)

C30_Witness ==
    \E i \in Lists("tools/list") :
        /\ Done(i)
        /\ variant = "v12"
        /\ Len(inv[i].outcome.result.tools) = 4
        /\ \A k \in 1..4 : inv[i].outcome.result.tools[k].name # "list_cities"

=============================================================================
